---- MODULE Spec2Model ----
(***************************************************************************)
(* Model of src/src/lib.rs: `enumerate` (the dependency activation         *)
(* resolver), `get_activedep` (the per-dependency activation rule) and     *)
(* `check_cfg_root` / `check_cfg` (the cfg(...) predicate evaluator).      *)
(*                                                                         *)
(* Strings that the code only compares or copies are TLA+ strings.  The    *)
(* strings the code takes apart are sequences: a target-group key is a     *)
(* sequence of characters (starts_with("cfg")), a feature directive is a   *)
(* sequence of tokens in which "/" is the separator (split('/')), and so   *)
(* dependency and feature names are token sequences too (<<"foo">>).  An   *)
(* environment key built by format!("PREFIX{}", name) is the sequence      *)
(* <<PREFIX>> \o name: the name is taken as written.                       *)
(***************************************************************************)
EXTENDS Integers, Sequences, FiniteSets, TLC

VARIABLES
    env,            \* the process environment: key -> value, on the keys that are set
    pc,             \* position of the call: "start", "run", "done", "panic", "cfg", "cfg_done"
    m,              \* the parsed manifest (features, dependencies, target)
    dep_features,   \* lib.rs:71  dependency name -> set of activated features
    rv,             \* lib.rs:87  the result mapping, name -> ActiveDependency
    fi,             \* index of the next entry of m.features
    di,             \* index of the next entry of m.dependencies
    current_target, \* lib.rs:96  Option<String>: TARGET once it has been read
    ti,             \* index of the next entry of m.target
    gi,             \* index of the next dependency of the group m.target[ti]; 0 outside a group
    cfg_in,         \* the syn::MetaList handed to check_cfg_root
    cfg_out         \* what check_cfg_root returned, and the check_cfg calls it made

vars == <<env, pc, m, dep_features, rv, fi, di, current_target, ti, gi, cfg_in, cfg_out>>

----------------------------------------------------------------------------
(* Bounds of the model *)

\* most sub-expressions of a generated any/all/not/other list
MaxNested == 2
\* most conditional-target groups of a manifest
MaxGroups == 2
\* most directives of a manifest feature
MaxSubfeats == 1

----------------------------------------------------------------------------
(* Option<T> *)

NoneOpt == [some |-> FALSE]
Some(x) == [some |-> TRUE, val |-> x]

SeqsUpTo(S, n) == UNION {[1..k -> S] : k \in 0..n}

----------------------------------------------------------------------------
(* The environment: std::env::var_os / std::env::var *)

\* format!("CARGO_FEATURE_{}", name): the prefix, then the name as written
feature_key(name) == <<"CARGO_FEATURE_">> \o name
\* format!("CARGO_CFG_{}", i): the prefix, then the identifier as written
cfg_key(i) == <<"CARGO_CFG_", i>>
target_key == <<"TARGET">>
manifest_dir_key == <<"CARGO_MANIFEST_DIR">>

\* std::env::var_os(key).is_some()
var_is_some(key) == key \in DOMAIN env
\* std::env::var(key), Err as None
var(key) == IF key \in DOMAIN env THEN Some(env[key]) ELSE NoneOpt

----------------------------------------------------------------------------
(* syn's view of a cfg(...) key.  A NestedMeta is one of                   *)
(*   [kind |-> "Lit"]                               NestedMeta::Lit        *)
(*   [kind |-> "Path", path]                        Meta::Path             *)
(*   [kind |-> "List", path, nested]                Meta::List             *)
(*   [kind |-> "NameValue", path, lit]              Meta::NameValue        *)
(* a path is its sequence of segments and a literal is                     *)
(*   [kind |-> "Str", value] or [kind |-> "Int"].                          *)

LitNested == [kind |-> "Lit"]
PathMeta(p) == [kind |-> "Path", path |-> p]
ListMeta(p, n) == [kind |-> "List", path |-> p, nested |-> n]
NameValue(p, l) == [kind |-> "NameValue", path |-> p, lit |-> l]
StrLit(s) == [kind |-> "Str", value |-> s]
IntLit == [kind |-> "Int"]

\* syn::Path::get_ident: the identifier of a one-segment path
get_ident(path) == IF Len(path) = 1 THEN Some(path[1]) ELSE NoneOpt

\* One record of the evaluation: check_cfg was called on the node at `path`
\* (child indices from the root list) and returned `v`.
Call(path, v) == [path |-> path, v |-> v]

RECURSIVE check_cfg(_, _)
RECURSIVE any_loop(_, _, _, _)
RECURSIVE all_loop(_, _, _, _)

\* C6 mutant: an unevaluable sub-expression is skipped instead of propagated
any_loop_skips_none(nested, i, p, log) ==
    IF i > Len(nested) THEN [v |-> Some(FALSE), log |-> log]
    ELSE LET r == check_cfg(nested[i], Append(p, i)) IN
         IF r.v.some /\ r.v.val THEN [v |-> Some(TRUE), log |-> log \cup r.log]
         ELSE any_loop(nested, i + 1, p, log \cup r.log)

\* lib.rs:228-233  for e in &ml.nested { if check_cfg(e)? { return Some(true) } } false
any_loop(nested, i, p, log) ==
    IF i > Len(nested) THEN [v |-> Some(FALSE), log |-> log]
    ELSE LET r == check_cfg(nested[i], Append(p, i)) IN
         IF ~r.v.some THEN [v |-> NoneOpt, log |-> log \cup r.log]
         ELSE IF r.v.val THEN [v |-> Some(TRUE), log |-> log \cup r.log]
         ELSE any_loop(nested, i + 1, p, log \cup r.log)

\* C7 mutant: the loop does not stop at the first false
all_loop_no_short_circuit(nested, i, p, log) ==
    IF i > Len(nested) THEN [v |-> Some(TRUE), log |-> log]
    ELSE LET r == check_cfg(nested[i], Append(p, i))
             rest == all_loop(nested, i + 1, p, log \cup r.log) IN
         IF ~r.v.some THEN [v |-> NoneOpt, log |-> log \cup r.log]
         ELSE IF ~r.v.val THEN [v |-> IF rest.v.some THEN Some(FALSE) ELSE rest.v,
                                log |-> rest.log]
         ELSE rest

\* lib.rs:244-249  for e in &ml.nested { if !check_cfg(e)? { return Some(false) } } true
all_loop(nested, i, p, log) ==
    IF i > Len(nested) THEN [v |-> Some(TRUE), log |-> log]
    ELSE LET r == check_cfg(nested[i], Append(p, i)) IN
         IF ~r.v.some THEN [v |-> NoneOpt, log |-> log \cup r.log]
         ELSE IF ~r.v.val THEN [v |-> Some(FALSE), log |-> log \cup r.log]
         ELSE all_loop(nested, i + 1, p, log \cup r.log)

\* lib.rs:256-268  key = "value": compare the environment value with the literal
check_name_value(nv) ==
    LET i == get_ident(nv.path) IN
    IF ~i.some THEN NoneOpt
    ELSE IF nv.lit.kind # "Str" THEN NoneOpt
    ELSE Some(var(cfg_key(i.val)) = Some(nv.lit.value))

\* lib.rs:215-270  the result of the call and the calls made, this one included
check_cfg(e, p) ==
    LET done(r) == [v |-> r.v, log |-> r.log \cup {Call(p, r.v)}]
        leaf(v) == [v |-> v, log |-> {}]
    IN
    IF e.kind = "Lit" THEN done(leaf(NoneOpt))
    ELSE IF e.kind = "Path" THEN done(leaf(NoneOpt))
    ELSE IF e.kind = "List" THEN
        LET i == get_ident(e.path) IN
        IF ~i.some THEN done(leaf(NoneOpt))
        ELSE IF i.val = "any" THEN done(any_loop(e.nested, 1, p, {}))
        ELSE IF i.val = "not" THEN
            IF Len(e.nested) # 1 THEN done(leaf(NoneOpt))
            ELSE LET r == check_cfg(e.nested[1], Append(p, 1)) IN
                 done([v |-> IF r.v.some THEN Some(~r.v.val) ELSE NoneOpt, log |-> r.log])
        ELSE IF i.val = "all" THEN done(all_loop(e.nested, 1, p, {}))
        ELSE done(leaf(NoneOpt))
    ELSE done(leaf(check_name_value(e)))

\* lib.rs:207-214  cfg(...) takes a single argument
check_cfg_root(ml) ==
    IF Len(ml.nested) # 1 THEN [v |-> NoneOpt, log |-> {}]
    ELSE check_cfg(ml.nested[1], <<1>>)

----------------------------------------------------------------------------
(* cargo_toml's view of the manifest.  A map (BTreeMap) is the sequence of *)
(* its entries in key order, the order the loops visit them in.            *)
(*   m.features      <<[name, subfeats], ...>>                             *)
(*   m.dependencies  <<[name, info], ...>>                                 *)
(*   m.target        <<[name, ml, dependencies], ...>>                     *)
(* where a group's `name` is the key's text and `ml` what syn::parse_str   *)
(* makes of that text.  A Dependency is one of                             *)
(*   [variant |-> "Simple", version_str]                                   *)
(*   [variant |-> "Inherited", optional, features]                         *)
(*   [variant |-> "Detailed", optional, version, path, git, rev, tag,      *)
(*    branch, default_features, features]                                  *)

Range(s) == {s[k] : k \in DOMAIN s}

\* str::starts_with
starts_with(s, prefix) ==
    Len(s) >= Len(prefix) /\ SubSeq(s, 1, Len(prefix)) = prefix

Cfg == <<"c", "f", "g">>

\* str::split('/'): the parts between the separators, empty parts included
RECURSIVE split(_)
split(s) ==
    IF \A k \in DOMAIN s : s[k] # "/" THEN <<s>>
    ELSE LET k == CHOOSE j \in DOMAIN s : s[j] = "/" /\ \A h \in 1..(j - 1) : s[h] # "/"
         IN <<SubSeq(s, 1, k - 1)>> \o split(SubSeq(s, k + 1, Len(s)))

\* lib.rs:82  dep_features.entry(dep).or_default().insert(f)
entry_insert(df, dep, f) ==
    [n \in DOMAIN df \cup {dep} |->
        IF n = dep THEN (IF dep \in DOMAIN df THEN df[dep] ELSE {}) \cup {f} ELSE df[n]]

\* lib.rs:76-83  the directives of one enabled feature, in order; None is the
\* panic of it.next().unwrap() on a directive with fewer than two parts
RECURSIVE activate_subfeats(_, _, _)
activate_subfeats(df, subfeats, k) ==
    IF k > Len(subfeats) THEN Some(df)
    ELSE LET it == split(subfeats[k]) IN
         IF Len(it) < 2 THEN NoneOpt
         ELSE activate_subfeats(entry_insert(df, it[1], it[2]), subfeats, k + 1)

\* C4 mutant: a feature counts as enabled whatever the environment says
feature_enabled_always(feat_name) == TRUE

\* lib.rs:74  std::env::var_os(format!("CARGO_FEATURE_{}", feat_name)).is_some()
feature_enabled(feat_name) == var_is_some(feature_key(feat_name))

\* C1 mutant: the optional flag is ignored
optional_omitted_never(depname, details) == FALSE

\* lib.rs:145, lib.rs:162  details.optional && var_os(CARGO_FEATURE_<depname>).is_none()
optional_omitted(depname, details) ==
    details.optional /\ ~var_is_some(feature_key(depname))

\* lib.rs:141, 150, 192  dep_features.get(depname).cloned().unwrap_or(HashSet::new())
activated_features(df, depname) ==
    IF depname \in DOMAIN df THEN df[depname] ELSE {}

\* lib.rs:175-186  rev, then tag, then branch, then master
resolve_revision(details) ==
    IF details.rev.some THEN [rev |-> "Revision", name |-> details.rev.val]
    ELSE IF details.tag.some THEN [rev |-> "Tag", name |-> details.tag.val]
    ELSE IF details.branch.some THEN [rev |-> "Branch", name |-> details.branch.val]
    ELSE [rev |-> "Master"]

\* lib.rs:165-191  version, then path, then git, then unknown
resolve_source(details) ==
    IF details.version.some THEN [src |-> "CratesIo", version |-> details.version.val]
    ELSE IF details.path.some THEN [src |-> "Path", path |-> details.path.val]
    ELSE IF details.git.some
        THEN [src |-> "Git", url |-> details.git.val, revision |-> resolve_revision(details)]
    ELSE [src |-> "Unknown"]

ActiveDependency(source, idf, features) ==
    [source |-> source, include_default_features |-> idf, features |-> features]

\* lib.rs:133-204  Option<ActiveDependency>
get_activedep(df, depname, dep_info) ==
    IF dep_info.variant = "Simple" THEN
        Some(ActiveDependency([src |-> "CratesIo", version |-> dep_info.version_str],
                              TRUE, activated_features(df, depname)))
    ELSE IF dep_info.variant = "Inherited" THEN
        IF optional_omitted(depname, dep_info) THEN NoneOpt
        ELSE Some(ActiveDependency([src |-> "Unknown"], FALSE,
                    activated_features(df, depname) \cup Range(dep_info.features)))
    ELSE
        IF optional_omitted(depname, dep_info) THEN NoneOpt
        ELSE Some(ActiveDependency(resolve_source(dep_info), dep_info.default_features,
                    activated_features(df, depname) \cup Range(dep_info.features)))

\* HashMap::insert: the entry under `k` is `v`, replacing any entry there
map_insert(map, k, v) ==
    [n \in DOMAIN map \cup {k} |-> IF n = k THEN v ELSE map[n]]

\* C2 mutant: an entry already in the result is kept (first write wins)
insert_active_keep_first(map, df, depname, dep_info) ==
    LET ad == get_activedep(df, depname, dep_info) IN
    IF ad.some /\ depname \notin DOMAIN map THEN map_insert(map, depname, ad.val) ELSE map

\* C10 mutant: an omitted declaration removes the entry of its name
insert_active_removes(map, df, depname, dep_info) ==
    LET ad == get_activedep(df, depname, dep_info) IN
    IF ad.some THEN map_insert(map, depname, ad.val)
    ELSE [n \in DOMAIN map \ {depname} |-> map[n]]

\* lib.rs:90-93, lib.rs:121-124  if let Some(ad) = get_activedep(..) { rv.insert(depname, ad) }
insert_active(map, df, depname, dep_info) ==
    LET ad == get_activedep(df, depname, dep_info) IN
    IF ad.some THEN map_insert(map, depname, ad.val) ELSE map

\* C3 mutant: the comparison of a literal key with TARGET is inverted
target_active_inverted(group, target) ==
    IF starts_with(group.name, Cfg) THEN
        IF ~group.ml.ok THEN NoneOpt ELSE check_cfg_root(group.ml).v
    ELSE Some(group.name # target)

\* C5 mutant: an unevaluable predicate makes the group inactive
target_active_none_inactive(group, target) ==
    IF starts_with(group.name, Cfg) THEN
        IF ~group.ml.ok THEN NoneOpt
        ELSE LET r == check_cfg_root(group.ml).v IN IF r.some THEN r ELSE Some(FALSE)
    ELSE Some(group.name = target)

\* lib.rs:100-115  `active`; None is either panic (the key does not parse as a
\* syn::MetaList, or check_cfg_root returned None)
target_active(group, target) ==
    IF starts_with(group.name, Cfg) THEN
        IF ~group.ml.ok THEN NoneOpt ELSE check_cfg_root(group.ml).v
    ELSE Some(group.name = target)

----------------------------------------------------------------------------
(* The inputs of the model *)

Foo == <<"foo">>
Bar == <<"bar">>
Extra == <<"extra">>
Own == <<"own">>

SimpleDep == [variant |-> "Simple", version_str |-> "1.0"]
InheritedOptional == [variant |-> "Inherited", optional |-> TRUE, features |-> <<Own>>]
DetailedOptional ==
    [variant |-> "Detailed", optional |-> TRUE, version |-> Some("2.0"), path |-> NoneOpt,
     git |-> NoneOpt, rev |-> NoneOpt, tag |-> NoneOpt, branch |-> NoneOpt,
     default_features |-> TRUE, features |-> <<Own>>]
DetailedGit ==
    [variant |-> "Detailed", optional |-> FALSE, version |-> NoneOpt, path |-> NoneOpt,
     git |-> Some("url"), rev |-> NoneOpt, tag |-> Some("v1"), branch |-> Some("dev"),
     default_features |-> FALSE, features |-> <<>>]

Dep(name, info) == [name |-> name, info |-> info]

\* [dependencies]: nothing, foo in one of its forms, or bar and foo
DependencySets ==
    {<<>>, <<Dep(Bar, SimpleDep), Dep(Foo, DetailedOptional)>>}
    \cup {<<Dep(Foo, d)>> : d \in {SimpleDep, InheritedOptional, DetailedOptional, DetailedGit}}

\* [target.<key>.dependencies]
GroupDependencySets ==
    {<<Dep(Foo, SimpleDep)>>, <<Dep(Foo, DetailedOptional)>>, <<Dep(Bar, SimpleDep)>>,
     <<Dep(Bar, SimpleDep), Dep(Foo, InheritedOptional)>>}

\* "foo/ext1", "foo" and "foo/ext1/x"
Directives == {<<"foo", "/", "ext1">>, <<"foo">>, <<"foo", "/", "ext1", "/", "x">>}

\* [features]: extra = [...], or nothing
FeatureSets ==
    {<<>>} \cup {<<[name |-> Extra, subfeats |-> d]>> : d \in SeqsUpTo(Directives, MaxSubfeats)}

NoParse == [ok |-> FALSE]
Parsed(path, nested) == [ok |-> TRUE, path |-> path, nested |-> nested]
OsIsLinux == NameValue(<<"os">>, StrLit("linux"))

\* The group keys, in the order of their text: "a", cfg(), cfg(os = "linux"),
\* cfg(unix), "cfgx" (begins with cfg, is no MetaList) and "x".
TargetKeys == <<
    [name |-> <<"a">>, ml |-> NoParse],
    [name |-> Cfg \o <<"(", ")">>, ml |-> Parsed(<<"cfg">>, <<>>)],
    [name |-> Cfg \o <<"(", "os = \"linux\"", ")">>, ml |-> Parsed(<<"cfg">>, <<OsIsLinux>>)],
    [name |-> Cfg \o <<"(", "unix", ")">>, ml |-> Parsed(<<"cfg">>, <<PathMeta(<<"unix">>)>>)],
    [name |-> Cfg \o <<"x">>, ml |-> NoParse],
    [name |-> <<"x">>, ml |-> NoParse] >>

Group(key, deps) == [name |-> key.name, ml |-> key.ml, dependencies |-> deps]

\* [target.*]: at most MaxGroups groups, in key order
TargetSets ==
    UNION {
        {[k \in 1..n |-> Group(TargetKeys[idx[k]], deps[k])] :
            idx \in {f \in [1..n -> DOMAIN TargetKeys] : \A a, b \in 1..n : a < b => f[a] < f[b]},
            deps \in [1..n -> GroupDependencySets]} :
        n \in 0..MaxGroups}

Manifests ==
    [features : FeatureSets, dependencies : DependencySets, target : TargetSets]

NoManifest == [features |-> <<>>, dependencies |-> <<>>, target |-> <<>>]

\* An environment: the keys that are set, with their values
MakeEnv(keys, target, os_lower, os_upper) ==
    LET dom == keys
               \cup (IF target.some THEN {target_key} ELSE {})
               \cup (IF os_lower.some THEN {cfg_key("os")} ELSE {})
               \cup (IF os_upper.some THEN {cfg_key("OS")} ELSE {})
    IN [k \in dom |->
            IF k = target_key THEN target.val
            ELSE IF k = cfg_key("os") THEN os_lower.val
            ELSE IF k = cfg_key("OS") THEN os_upper.val
            ELSE "1"]

Envs ==
    {MakeEnv(keys, target, os, NoneOpt) :
        keys \in SUBSET {manifest_dir_key, feature_key(Foo), feature_key(Extra)},
        target \in {NoneOpt, Some(<<"x">>)},
        os \in {NoneOpt, Some("linux")}}

NoCfgIn == [path |-> <<"cfg">>, nested |-> <<>>]
NoCfgOut == [v |-> NoneOpt, log |-> {}]

----------------------------------------------------------------------------
(* enumerate(), lib.rs:52-130 *)

Init ==
    /\ env \in Envs
    /\ pc = "start"
    /\ m = NoManifest
    /\ dep_features = <<>>
    /\ rv = <<>>
    /\ fi = 1
    /\ di = 1
    /\ current_target = NoneOpt
    /\ ti = 1
    /\ gi = 0
    /\ cfg_in = NoCfgIn
    /\ cfg_out = NoCfgOut

Panic ==
    /\ pc' = "panic"
    /\ UNCHANGED <<env, m, dep_features, rv, fi, di, current_target, ti, gi, cfg_in, cfg_out>>

\* lib.rs:54-68  CARGO_MANIFEST_DIR, the file and its parse; each failure panics
LoadManifest ==
    /\ pc = "start"
    /\ \E file \in {"unreadable", "unparseable", "ok"} :
        IF var_is_some(manifest_dir_key) /\ file = "ok"
        THEN /\ \E parsed \in Manifests : m' = parsed
             /\ pc' = "run"
             /\ UNCHANGED <<env, dep_features, rv, fi, di, current_target, ti, gi, cfg_in, cfg_out>>
        ELSE Panic

\* lib.rs:72-85  one entry of m.features
FeatureStep ==
    /\ pc = "run"
    /\ fi <= Len(m.features)
    /\ LET feat == m.features[fi]
           df == IF feature_enabled(feat.name)
                 THEN activate_subfeats(dep_features, feat.subfeats, 1)
                 ELSE Some(dep_features)
       IN IF df.some
          THEN /\ dep_features' = df.val
               /\ fi' = fi + 1
               /\ UNCHANGED <<env, pc, m, rv, di, current_target, ti, gi, cfg_in, cfg_out>>
          ELSE Panic

\* lib.rs:88-94  one entry of m.dependencies
DepStep ==
    /\ pc = "run"
    /\ fi > Len(m.features)
    /\ di <= Len(m.dependencies)
    /\ rv' = insert_active(rv, dep_features, m.dependencies[di].name, m.dependencies[di].info)
    /\ di' = di + 1
    /\ UNCHANGED <<env, pc, m, dep_features, fi, current_target, ti, gi, cfg_in, cfg_out>>

\* lib.rs:96  std::env::var("TARGET").unwrap()
ReadTarget ==
    /\ pc = "run"
    /\ fi > Len(m.features)
    /\ di > Len(m.dependencies)
    /\ ~current_target.some
    /\ IF var(target_key).some
       THEN /\ current_target' = var(target_key)
            /\ UNCHANGED <<env, pc, m, dep_features, rv, fi, di, ti, gi, cfg_in, cfg_out>>
       ELSE Panic

\* lib.rs:97-118  the head of one entry of m.target: is the group active
GroupBegin ==
    /\ pc = "run"
    /\ current_target.some
    /\ ti <= Len(m.target)
    /\ gi = 0
    /\ LET active == target_active(m.target[ti], current_target.val) IN
       IF ~active.some THEN Panic
       ELSE /\ IF active.val /\ Len(m.target[ti].dependencies) > 0
               THEN gi' = 1 /\ ti' = ti
               ELSE gi' = 0 /\ ti' = ti + 1
            /\ UNCHANGED <<env, pc, m, dep_features, rv, fi, di, current_target, cfg_in, cfg_out>>

\* lib.rs:119-125  one dependency of the active group m.target[ti]
GroupDepStep ==
    /\ pc = "run"
    /\ gi >= 1
    /\ LET dep == m.target[ti].dependencies[gi] IN
       rv' = insert_active(rv, dep_features, dep.name, dep.info)
    /\ IF gi < Len(m.target[ti].dependencies)
       THEN gi' = gi + 1 /\ ti' = ti
       ELSE gi' = 0 /\ ti' = ti + 1
    /\ UNCHANGED <<env, pc, m, dep_features, fi, di, current_target, cfg_in, cfg_out>>

\* lib.rs:129  rv
Return ==
    /\ pc = "run"
    /\ current_target.some
    /\ ti > Len(m.target)
    /\ pc' = "done"
    /\ UNCHANGED <<env, m, dep_features, rv, fi, di, current_target, ti, gi, cfg_in, cfg_out>>

Next ==
    \/ LoadManifest
    \/ FeatureStep
    \/ DepStep
    \/ ReadTarget
    \/ GroupBegin
    \/ GroupDepStep
    \/ Return

Spec == Init /\ [][Next]_vars

----------------------------------------------------------------------------
(* The evaluator on its own: check_cfg_root applied to a generated key *)

NoIdentPath == <<"a", "b">>

Leaves ==
    {OsIsLinux, NameValue(<<"os">>, StrLit("Linux")), NameValue(<<"os">>, IntLit),
     NameValue(NoIdentPath, StrLit("linux")), PathMeta(<<"unix">>), LitNested}

Lists(paths, S) == {ListMeta(p, n) : p \in paths, n \in SeqsUpTo(S, MaxNested)}

\* any/all/not/foo/a::b over the leaves
FlatLists == Lists({<<"any">>, <<"all">>, <<"not">>, <<"foo">>, NoIdentPath}, Leaves)

Inner ==
    {OsIsLinux, PathMeta(<<"unix">>), ListMeta(<<"not">>, <<OsIsLinux>>),
     ListMeta(<<"any">>, <<>>), ListMeta(<<"all">>, <<>>)}

\* any/all/not over leaves and lists
NestedLists == Lists({<<"any">>, <<"all">>, <<"not">>}, Inner)

\* cfg(e), cfg() and cfg(a, b)
CfgInputs ==
    {[path |-> <<"cfg">>, nested |-> n] :
        n \in {<<e>> : e \in Leaves \cup FlatLists \cup NestedLists}
              \cup {<<>>} \cup {<<a, b>> : a, b \in {OsIsLinux, PathMeta(<<"unix">>)}}}

CfgEnvs ==
    {MakeEnv({}, NoneOpt, lower, upper) :
        lower, upper \in {NoneOpt, Some("linux"), Some("Linux")}}

InitCfg ==
    /\ env \in CfgEnvs
    /\ pc = "cfg"
    /\ cfg_in \in CfgInputs
    /\ cfg_out = NoCfgOut
    /\ m = NoManifest
    /\ dep_features = <<>>
    /\ rv = <<>>
    /\ fi = 1
    /\ di = 1
    /\ current_target = NoneOpt
    /\ ti = 1
    /\ gi = 0

\* lib.rs:107  check_cfg_root(&ml)
CfgEval ==
    /\ pc = "cfg"
    /\ cfg_out' = check_cfg_root(cfg_in)
    /\ pc' = "cfg_done"
    /\ UNCHANGED <<env, m, dep_features, rv, fi, di, current_target, ti, gi, cfg_in>>

NextCfg == CfgEval

SpecCfg == InitCfg /\ [][NextCfg]_vars

----------------------------------------------------------------------------
(* Claims about the evaluator, under SpecCfg *)

\* The node of cfg_in that the call path `p` leads to
RECURSIVE Walk(_, _)
Walk(e, q) == IF q = <<>> THEN e ELSE Walk(e.nested[q[1]], Tail(q))
NodeAt(p) == Walk(cfg_in.nested[p[1]], Tail(p))

IsList(e, ident) == e.kind = "List" /\ get_ident(e.path) = Some(ident)

\* The calls check_cfg made on the sub-expressions of the node at `p`
KidsCalled(p) == {c \in cfg_out.log : Len(c.path) = Len(p) + 1 /\ SubSeq(c.path, 1, Len(p)) = p}
KidValue(p, i) == (CHOOSE c \in KidsCalled(p) : c.path = Append(p, i)).v

\* A scan of the sub-expressions of the node called as `c`: they are evaluated
\* left to right from the first one, every one before the last evaluated
\* returned `goOn`, the scan stops before the end only at a result other than
\* `goOn`, and the call returns the last result (`goOn` when there is none).
ScanHolds(c, goOn) ==
    LET n == Len(NodeAt(c.path).nested)
        kids == {d.path[Len(d.path)] : d \in KidsCalled(c.path)}
        k == Cardinality(kids)
    IN /\ kids = 1..k
       /\ Cardinality(KidsCalled(c.path)) = k
       /\ n > 0 => k >= 1
       /\ \A i \in 1..(k - 1) : KidValue(c.path, i) = Some(goOn)
       /\ k < n => KidValue(c.path, k) # Some(goOn)
       /\ c.v = IF k = 0 THEN Some(goOn) ELSE KidValue(c.path, k)

\* C6: any(e1, ..., en) evaluates e1, e2, ... in order, stops at the first that
\* is true (returning true) or unevaluable (returning None), evaluates nothing
\* after it, and returns false when all are false (any() is false).
C6_AnyScan ==
    pc = "cfg_done" =>
        \A c \in cfg_out.log : IsList(NodeAt(c.path), "any") => ScanHolds(c, FALSE)

\* an any(...) whose scan stopped before its last sub-expression
C6_Witness ==
    /\ pc = "cfg_done"
    /\ \E c \in cfg_out.log :
        /\ IsList(NodeAt(c.path), "any")
        /\ Cardinality(KidsCalled(c.path)) < Len(NodeAt(c.path).nested)
        /\ ~c.v.some

\* C7: all(e1, ..., en) evaluates e1, e2, ... in order, stops at the first that
\* is false (returning false) or unevaluable (returning None), evaluates nothing
\* after it, and returns true when all are true (all() is true).
C7_AllScan ==
    pc = "cfg_done" =>
        \A c \in cfg_out.log : IsList(NodeAt(c.path), "all") => ScanHolds(c, TRUE)

\* an all(...) that returned false before its last sub-expression
C7_Witness ==
    /\ pc = "cfg_done"
    /\ \E c \in cfg_out.log :
        /\ IsList(NodeAt(c.path), "all")
        /\ Cardinality(KidsCalled(c.path)) < Len(NodeAt(c.path).nested)
        /\ c.v = Some(FALSE)

\* The configuration names of the model in upper case
to_uppercase(i) == IF i = "os" THEN "OS" ELSE i

\* C8: a leaf key = "value" is true iff the environment value stored under
\* CARGO_CFG_ followed by the key in upper case equals the literal exactly,
\* and false otherwise, also when that environment key is not set.
C8_LeafUppercasedKey ==
    (pc = "cfg_done" /\ Len(cfg_in.nested) = 1) =>
        LET e == cfg_in.nested[1] IN
        (e.kind = "NameValue" /\ get_ident(e.path).some /\ e.lit.kind = "Str") =>
            cfg_out.v = Some(var(<<"CARGO_CFG_", to_uppercase(get_ident(e.path).val)>>)
                             = Some(e.lit.value))

----------------------------------------------------------------------------
(* Claims about the resolver, under Spec *)

Returned == pc = "done"

\* The declarations of `n` in a dependency set
DeclsOf(deps, n) == {d.info : d \in {x \in Range(deps) : x.name = n}}
DeclIn(deps, n) == CHOOSE d \in DeclsOf(deps, n) : TRUE

\* The names the manifest declares
DeclaredNames ==
    {d.name : d \in Range(m.dependencies)}
    \cup UNION {{d.name : d \in Range(g.dependencies)} : g \in Range(m.target)}

\* Is the declaration optional (Simple has no such flag)
IsOptional(d) == d.variant \in {"Inherited", "Detailed"} /\ d.optional
\* Does the environment signal the feature of this name as enabled
Signalled(name) == feature_key(name) \in DOMAIN env
\* The Per-Dependency Activation Rule gives a record for this declaration
Yields(n, d) == get_activedep(dep_features, n, d).some

\* Is the group active: a key that begins with cfg is a predicate, active iff
\* the evaluator returns true; any other key is a literal target, active iff it
\* equals TARGET
IsActive(g) ==
    IF starts_with(g.name, Cfg)
    THEN g.ml.ok /\ check_cfg_root(g.ml).v = Some(TRUE)
    ELSE var(target_key) = Some(g.name)

\* The active groups that declare `n`, by index
ActiveDeclaring(n) ==
    {k \in DOMAIN m.target : IsActive(m.target[k]) /\ DeclsOf(m.target[k].dependencies, n) # {}}
\* all declarations of `n`: unconditional ones and those of every group
AllDecls(n) ==
    DeclsOf(m.dependencies, n)
    \cup UNION {DeclsOf(g.dependencies, n) : g \in Range(m.target)}
\* the declarations of `n` the resolver applies the rule to
AppliedDecls(n) ==
    DeclsOf(m.dependencies, n)
    \cup UNION {DeclsOf(m.target[k].dependencies, n) : k \in ActiveDeclaring(n)}

Last(S) == CHOOSE k \in S : \A j \in S : j <= k

\* C1 as stated: a name with an optional Detailed or Inherited declaration (in
\* the unconditional set or an active group) and no enabling signal in the
\* environment is absent from the returned mapping.
C1_OptionalAbsent ==
    Returned =>
        \A n \in DeclaredNames :
            ((\E d \in AppliedDecls(n) : IsOptional(d)) /\ ~Signalled(n)) => n \notin DOMAIN rv

\* C1 as amended: an optional declaration without its signal gives no entry;
\* the name is in the returned mapping only if another declaration of it, in
\* the unconditional set or an active group, is Simple or not optional, and the
\* entry is then the record of such a declaration.
C1_OptionalContributesNothing ==
    Returned =>
        \A n \in DeclaredNames :
            ((\E d \in AppliedDecls(n) : IsOptional(d)) /\ ~Signalled(n) /\ n \in DOMAIN rv) =>
                \E d \in AppliedDecls(n) :
                    ~IsOptional(d) /\ get_activedep(dep_features, n, d) = Some(rv[n])

\* foo is declared optional, is not signalled and is absent, next to an entry for bar
C1_Witness ==
    /\ Returned
    /\ \E d \in DeclsOf(m.dependencies, Foo) : IsOptional(d)
    /\ ~Signalled(Foo)
    /\ Foo \notin DOMAIN rv
    /\ Bar \in DOMAIN rv

\* C2 as stated: a name declared unconditionally and in an active group has,
\* as its entry, the record of the conditional declaration (the last active
\* group that declares it).
C2_ConditionalWins ==
    Returned =>
        \A n \in DeclaredNames :
            (DeclsOf(m.dependencies, n) # {} /\ ActiveDeclaring(n) # {} /\ n \in DOMAIN rv) =>
                get_activedep(dep_features, n,
                    DeclIn(m.target[Last(ActiveDeclaring(n))].dependencies, n)) = Some(rv[n])

\* C2 as amended: the entry is the record of the last active group whose
\* declaration of the name gives a record; when no active group's declaration
\* gives one, the entry is the unconditional declaration's record, and there is
\* no entry when that gives none either.
C2_LastRecordWins ==
    Returned =>
        \A n \in DeclaredNames :
            (DeclsOf(m.dependencies, n) # {} /\ ActiveDeclaring(n) # {}) =>
                LET giving == {k \in ActiveDeclaring(n) :
                                  Yields(n, DeclIn(m.target[k].dependencies, n))}
                    uncond == DeclIn(m.dependencies, n)
                IN IF giving # {}
                   THEN /\ n \in DOMAIN rv
                        /\ get_activedep(dep_features, n,
                               DeclIn(m.target[Last(giving)].dependencies, n)) = Some(rv[n])
                   ELSE IF Yields(n, uncond)
                   THEN /\ n \in DOMAIN rv
                        /\ get_activedep(dep_features, n, uncond) = Some(rv[n])
                   ELSE n \notin DOMAIN rv

\* the entry of foo is the record of an active group, not the unconditional one
C2_Witness ==
    /\ Returned
    /\ DeclsOf(m.dependencies, Foo) # {}
    /\ ActiveDeclaring(Foo) # {}
    /\ Foo \in DOMAIN rv
    /\ get_activedep(dep_features, Foo, DeclIn(m.dependencies, Foo)) # Some(rv[Foo])
    /\ get_activedep(dep_features, Foo,
           DeclIn(m.target[Last(ActiveDeclaring(Foo))].dependencies, Foo)) = Some(rv[Foo])

\* C3: a name is in the returned mapping iff the rule gives a record for an
\* unconditional declaration of it or for a declaration of it in an active
\* group; so a group contributes iff it is active, and a name declared only in
\* inactive groups is absent.
C3_ActiveGroupsOnly ==
    Returned =>
        \A n \in DeclaredNames :
            n \in DOMAIN rv <=> \E d \in AppliedDecls(n) : Yields(n, d)

\* foo is declared only in an inactive literal group and is absent, bar comes
\* from an active predicate group
C3_Witness ==
    /\ Returned
    /\ DeclsOf(m.dependencies, Foo) = {}
    /\ \E g \in Range(m.target) :
        ~starts_with(g.name, Cfg) /\ ~IsActive(g) /\ DeclsOf(g.dependencies, Foo) # {}
    /\ Foo \notin DOMAIN rv
    /\ \E g \in Range(m.target) :
        starts_with(g.name, Cfg) /\ IsActive(g) /\ DeclsOf(g.dependencies, Bar) # {}
    /\ Bar \in DOMAIN rv

\* The directives "dep/feat" (exactly two parts) of the features of the manifest
\* that the environment signals, as pairs
EnabledDirectives ==
    UNION {{split(d) : d \in {x \in Range(f.subfeats) : Len(split(x)) = 2}} :
            f \in {x \in Range(m.features) : Signalled(x.name)}}
\* The first two parts of every directive of a signalled feature
EnabledPairs ==
    UNION {{SubSeq(split(d), 1, 2) : d \in {x \in Range(f.subfeats) : Len(split(x)) >= 2}} :
            f \in {x \in Range(m.features) : Signalled(x.name)}}

\* C4: every directive dep/feat of a signalled feature puts feat in the
\* features of dep's entry, when dep has one; and an entry's features are only
\* those of its own declarations and of directives of signalled features.
C4_DirectivesActivate ==
    Returned =>
        /\ \A d \in EnabledDirectives : d[1] \in DOMAIN rv => d[2] \in rv[d[1]].features
        /\ \A n \in DOMAIN rv :
            rv[n].features \subseteq
                UNION {Range(d.features) : d \in {x \in AppliedDecls(n) : x.variant # "Simple"}}
                \cup {d[2] : d \in {x \in EnabledPairs : x[1] = n}}

\* extra is signalled, has the directive foo/ext1, and foo's entry has ext1
C4_Witness ==
    /\ Returned
    /\ Signalled(Extra)
    /\ <<Foo, <<"ext1">>>> \in EnabledDirectives
    /\ Foo \in DOMAIN rv
    /\ <<"ext1">> \in rv[Foo].features

\* C5: while the call has not panicked, every predicate group it has gone
\* past evaluated to Some: a predicate that evaluates to None is never skipped
\* as inactive, and no mapping is returned.
C5_UnevaluableAborts ==
    pc \in {"run", "done"} =>
        \A k \in DOMAIN m.target :
            (k < ti /\ starts_with(m.target[k].name, Cfg) /\ m.target[k].ml.ok) =>
                check_cfg_root(m.target[k].ml).v.some

\* the call panicked at a predicate group that evaluates to None
C5_Witness ==
    /\ pc = "panic"
    /\ current_target.some
    /\ ti \in DOMAIN m.target
    /\ starts_with(m.target[ti].name, Cfg)
    /\ m.target[ti].ml.ok
    /\ ~check_cfg_root(m.target[ti].ml).v.some
    /\ DOMAIN rv # {}

\* C9: every directive of a signalled feature that the call has gone past
\* without panicking has exactly two parts.
C9_ExactlyTwoParts ==
    pc \in {"run", "done"} =>
        \A k \in DOMAIN m.features :
            (k < fi /\ Signalled(m.features[k].name)) =>
                \A d \in Range(m.features[k].subfeats) : Len(split(d)) = 2

\* One step keeps every name of the result, and leaves the result as it is when
\* it is the step of an omitted declaration of an active group
C10_Step ==
    /\ DOMAIN rv \subseteq DOMAIN rv'
    /\ (pc = "run" /\ gi >= 1
        /\ ~Yields(m.target[ti].dependencies[gi].name, m.target[ti].dependencies[gi].info))
       => rv' = rv

\* C10: no step removes a name from the result, and the step of an omitted
\* declaration of an active group leaves an entry already there unchanged.
C10_KeysNeverShrink == [][C10_Step]_vars

\* the last declaration of the group just left was omitted and its name has an entry
C10_Witness ==
    /\ pc \in {"run", "done"}
    /\ gi = 0
    /\ ti >= 2
    /\ (ti - 1) \in DOMAIN m.target
    /\ IsActive(m.target[ti - 1])
    /\ LET deps == m.target[ti - 1].dependencies
           last == deps[Len(deps)]
       IN ~Yields(last.name, last.info) /\ last.name \in DOMAIN rv

====
